---- MODULE Spec2Model ----
(***************************************************************************)
(* A model of the Spotify bronze ingestion core:                           *)
(*   - SpotifyOAuthClient.get_token  (src/Spotify/oauth.py)                *)
(*   - SpotifyClient.get_spotify     (src/Spotify/client.py)               *)
(*   - write_raw_jsonl               (src/Spotify/raw_writer.py)           *)
(*   - validate_json                 (src/Spotify/schema.py, util.py)      *)
(* Spec         : one thread calling get_token and get_spotify.            *)
(* SpecLand     : one lander calling write_raw_jsonl, with crashes.        *)
(* SpecValidate : validate_json on sample documents.                       *)
(* SpecPaths    : the destination directory of sample partition maps.      *)
(* SpecLand2    : two landers of one destination at the same time.         *)
(* SpecToken2   : two threads calling get_token on one client.             *)
(***************************************************************************)
EXTENDS Integers, Sequences, FiniteSets, TLC

(***************************************************************************)
(* Bounds of the model.                                                    *)
(***************************************************************************)
MaxAttempts == 3
MaxCalls == 2
MaxRequests == 4
MaxNow == 10
MaxLandCalls == 2
MaxCrashes == 1
MaxClock == 1
\* the longest items list of a sample document
MaxItems == 2
\* the most pairs of a sample partition map
MaxPairs == 2
\* clock ticks per UTC day
TicksPerDay == 1

(***************************************************************************)
(* Program constants.                                                      *)
(***************************************************************************)
Margin == 30
DefaultExpiresIn == 3600
DefaultRetries == 3
DefaultBackoff == 1

(***************************************************************************)
(* Input samples.                                                          *)
(***************************************************************************)
Threads == {"t1"}
\* two threads that share one SpotifyOAuthClient
Threads2 == {"t1", "t2"}
BackoffSet == {2}
TickSteps == {10}
\* expires_in values a grant response may carry (seconds)
ExpiresInSamples == {40}
\* 0 stands for a transport failure (the request raised before any status)
FailStatuses == {0, 401, 429, 500, 503}

VARIABLES
    now,      \* time.time(), in seconds
    token,    \* SpotifyOAuthClient._token
    exp,      \* SpotifyOAuthClient._exp
    expGrant, \* ghost: the grant response _exp was computed from
    grants,   \* number of grant responses the identity endpoint has issued
    tk,       \* per thread: the frame of its get_token call
    sr,       \* per thread: the frame of its get_spotify call
    calls,    \* number of top-level calls started
    reqs      \* number of HTTP requests issued

authVars == <<now, token, exp, expGrant, grants, tk, sr, calls, reqs>>

VARIABLES
    cfg,       \* the arguments every land call of the run shares, and the runtime
    clock,     \* datetime.now(timezone.utc), in microsecond ticks
    fsDirs,    \* the directories that exist
    fsFiles,   \* the files that exist: path -> content
    tmpSeq,    \* number of temporary files created so far
    ld,        \* per lander: the frame of its write_raw_jsonl call
    landCalls, \* number of land calls started
    crashes    \* number of land calls that died

landVars == <<cfg, clock, fsDirs, fsFiles, tmpSeq, ld, landCalls, crashes>>

VARIABLES
    vd         \* the frame of the validate_json call

valVars == <<vd>>

(***************************************************************************)
(* Values.                                                                 *)
(***************************************************************************)
\* a token is the string of one grant; text "" is an empty (falsy) string,
\* text "None" is Python's None
None == [grant |-> 0, text |-> "None"]
Truthy(tok) == tok.text = "tok"

NoErr == [kind |-> "none", attempts |-> 0, cause |-> 0]
NoPrev == [ok |-> FALSE, value |-> None, requests |-> 0]
NoExpiresIn == [kind |-> "absent", val |-> 0]

ExpiresIns ==
    {NoExpiresIn, [kind |-> "bad", val |-> 0]}
        \cup {[kind |-> "int", val |-> v] : v \in ExpiresInSamples}

NoResponse == [status |-> 0, at |-> "missing", ei |-> NoExpiresIn]

\* what a POST to the token URL can produce
TokenResponses ==
    {[status |-> s, at |-> "missing", ei |-> NoExpiresIn] : s \in FailStatuses}
        \cup {[status |-> 200, at |-> "missing", ei |-> NoExpiresIn]}
        \cup {[status |-> 200, at |-> a, ei |-> e] : a \in {"tok", ""}, e \in ExpiresIns}

\* what a GET to the search URL can produce
SearchResponses ==
    {[status |-> s, doc |-> 0] : s \in FailStatuses}
        \cup {[status |-> 200, doc |-> 1]}

IdleToken ==
    [pc |-> "idle", retries |-> 0, backoff |-> 0, attempt |-> 0, hist |-> <<>>,
     slept |-> 0, lastOp |-> "none", out |-> "none", result |-> None,
     err |-> NoErr, resp |-> NoResponse, granted |-> 0,
     window |-> FALSE, cached |-> FALSE, prev |-> NoPrev,
     \* self._token and self._exp as the call found them
     token0 |-> None, exp0 |-> 0]

IdleSearch ==
    [pc |-> "idle", retries |-> 0, backoff |-> 0, attempt |-> 0, hist |-> <<>>,
     slept |-> 0, lastOp |-> "none", out |-> "none", token |-> None,
     doc |-> 0, err |-> NoErr]

(***************************************************************************)
(* Pure pieces of the two retry loops.                                     *)
(***************************************************************************)
\* the cache test with the comparison turned round and `and` for `or`
CacheHitInverted(tok, e, t) == Truthy(tok) /\ t > e - Margin

\* oauth.py:20  `self._token or time.time() < self._exp - 30`
CacheHit(tok, e, t) == Truthy(tok) \/ t < e - Margin

\* oauth.py:30, client.py:24
\* `(status == 429) or (500 < status < 600) and attempt < retries`
RetryStatus(status, attempt, retries) ==
    (status = 429) \/ ((500 < status /\ status < 600) /\ attempt < retries)

\* Response.raise_for_status raises HTTPError (a RequestException) on 4xx, 5xx
RaisesForStatus(status) == 400 <= status /\ status < 600

\* a backoff that does not grow with the attempt number
WaitFlat(attempt, backoff) == backoff

\* oauth.py:31,43  client.py:25,35  `wait = attempt * backoff`
Wait(attempt, backoff) == attempt * backoff

\* oauth.py:42, client.py:34  the except branch retries while attempts remain
ExceptRetries(attempt, retries) == attempt < retries

Retryable(status) == status = 0 \/ status = 429 \/ (500 <= status /\ status < 600)

(***************************************************************************)
(* get_token                                                               *)
(***************************************************************************)
\* oauth.py:19-24  the call, the cache test and the start of the loop
GetTokenCall(t, retries, backoff) ==
    LET old == tk[t]
        prev == IF old.pc = "done"
                THEN [ok |-> old.out = "returned", value |-> old.result,
                      requests |-> Len(old.hist)]
                ELSE old.prev
        base == [IdleToken EXCEPT !.retries = retries, !.backoff = backoff,
                                  !.window = now < exp - Margin,
                                  !.cached = token # None,
                                  !.prev = prev,
                                  !.token0 = token, !.exp0 = exp]
    IN  /\ old.pc \in {"idle", "done"}
        /\ tk' = [tk EXCEPT ![t] =
                    IF CacheHit(token, exp, now)
                    THEN [base EXCEPT !.pc = "done", !.out = "returned", !.result = token]
                    ELSE [base EXCEPT !.pc = "loop", !.attempt = 1]]
        /\ UNCHANGED <<now, token, exp, expGrant, grants>>

GetToken(t, retries, backoff) ==
    /\ sr[t].pc \in {"idle", "done"}
    /\ calls < MaxCalls
    /\ calls' = calls + 1
    /\ GetTokenCall(t, retries, backoff)
    /\ sr' = [sr EXCEPT ![t] = IdleSearch]
    /\ UNCHANGED <<reqs, landVars, valVars>>

\* the frame after `time.sleep(wait); continue`
TokenSleep(f) ==
    [f EXCEPT !.slept = @ + Wait(f.attempt, f.backoff), !.lastOp = "sleep",
              !.attempt = @ + 1]

\* oauth.py:46  raise RuntimeError(f"Request failed after {retires} attempts: {e}")
TokenFailed(f, status) ==
    [f EXCEPT !.pc = "done", !.out = "error",
              !.err = [kind |-> "RequestFailed", attempts |-> f.retries, cause |-> status]]

\* oauth.py:26-37, 41-46  one pass of the loop body: the POST and what follows,
\* up to the assignment of self._token
TokenAttempt(t, resp) ==
    LET f0 == tk[t]
        f == [f0 EXCEPT !.hist = Append(@, resp.status), !.lastOp = "request",
                        !.resp = resp]
        s == resp.status
        g == grants + 1
    IN  /\ f0.pc = "loop"
        /\ f0.attempt <= f0.retries
        /\ reqs < MaxRequests
        /\ reqs' = reqs + 1
        /\ IF s # 0 /\ RetryStatus(s, f0.attempt, f0.retries)
           THEN /\ tk' = [tk EXCEPT ![t] = TokenSleep(f)]
                /\ now' = now + Wait(f0.attempt, f0.backoff)
                /\ UNCHANGED <<token, grants>>
           ELSE IF s = 0 \/ RaisesForStatus(s)
           THEN IF ExceptRetries(f0.attempt, f0.retries)
                THEN /\ tk' = [tk EXCEPT ![t] = TokenSleep(f)]
                     /\ now' = now + Wait(f0.attempt, f0.backoff)
                     /\ UNCHANGED <<token, grants>>
                ELSE /\ tk' = [tk EXCEPT ![t] = TokenFailed(f, s)]
                     /\ UNCHANGED <<now, token, grants>>
           ELSE IF resp.at = "missing"
           THEN \* payload["access_token"] raises KeyError, which nothing catches
                /\ tk' = [tk EXCEPT ![t] =
                            [f EXCEPT !.pc = "done", !.out = "error",
                                      !.err = [kind |-> "KeyError", attempts |-> f0.attempt,
                                               cause |-> s]]]
                /\ UNCHANGED <<now, token, grants>>
           ELSE /\ token' = [grant |-> g, text |-> resp.at]
                /\ grants' = g
                /\ tk' = [tk EXCEPT ![t] =
                            [f EXCEPT !.pc = "store_exp", !.granted = g]]
                /\ UNCHANGED now
        /\ UNCHANGED <<exp, expGrant, sr, calls, landVars, valVars>>

\* oauth.py:38-39  self._exp = time.time() + int(payload.get("expires_in", 3600))
\*                 return self._token
TokenStoreExp(t) ==
    LET f == tk[t]
        ei == f.resp.ei
    IN  /\ f.pc = "store_exp"
        /\ IF ei.kind = "bad"
           THEN \* int(...) raises ValueError or TypeError, which nothing catches
                /\ tk' = [tk EXCEPT ![t] =
                            [f EXCEPT !.pc = "done", !.out = "error",
                                      !.err = [kind |-> "ValueError", attempts |-> f.attempt,
                                               cause |-> 200]]]
                /\ UNCHANGED <<exp, expGrant>>
           ELSE /\ exp' = now + (IF ei.kind = "absent" THEN DefaultExpiresIn ELSE ei.val)
                /\ expGrant' = f.granted
                /\ tk' = [tk EXCEPT ![t] =
                            [f EXCEPT !.pc = "done", !.out = "returned", !.result = token]]
        /\ UNCHANGED <<now, token, grants, sr, calls, reqs, landVars, valVars>>

\* oauth.py:47  the loop ran out: raise RuntimeError("Unexpected failure ...")
TokenLoopEnd(t) ==
    LET f == tk[t]
    IN  /\ f.pc = "loop"
        /\ f.attempt > f.retries
        /\ tk' = [tk EXCEPT ![t] =
                    [f EXCEPT !.pc = "done", !.out = "error",
                              !.err = [kind |-> "Unexpected", attempts |-> 0, cause |-> 0]]]
        /\ UNCHANGED <<now, token, exp, expGrant, grants, sr, calls, reqs, landVars, valVars>>

(***************************************************************************)
(* get_spotify                                                             *)
(***************************************************************************)
\* client.py:15-16  the call; its first statement is self.auth.get_token()
Search(t, retries, backoff) ==
    /\ sr[t].pc \in {"idle", "done"}
    /\ calls < MaxCalls
    /\ calls' = calls + 1
    /\ sr' = [sr EXCEPT ![t] =
                [IdleSearch EXCEPT !.pc = "token", !.retries = retries, !.backoff = backoff]]
    /\ GetTokenCall(t, DefaultRetries, DefaultBackoff)
    /\ UNCHANGED <<reqs, landVars, valVars>>

\* client.py:16-20  get_token came back: its error propagates, its token
\* goes into the header and the loop starts
SearchGotToken(t) ==
    LET f == sr[t]
    IN  /\ f.pc = "token"
        /\ tk[t].pc = "done"
        /\ sr' = [sr EXCEPT ![t] =
                    IF tk[t].out = "error"
                    THEN [f EXCEPT !.pc = "done", !.out = "error", !.err = tk[t].err]
                    ELSE [f EXCEPT !.pc = "loop", !.attempt = 1, !.token = tk[t].result]]
        /\ UNCHANGED <<now, token, exp, expGrant, grants, tk, calls, reqs, landVars, valVars>>

SearchSleep(f) ==
    [f EXCEPT !.slept = @ + Wait(f.attempt, f.backoff), !.lastOp = "sleep",
              !.attempt = @ + 1]

\* client.py:38  raise RuntimeError("API called failed")
SearchFailed(f, status) ==
    [f EXCEPT !.pc = "done", !.out = "error",
              !.err = [kind |-> "ApiCallFailed", attempts |-> 0, cause |-> 0]]

\* client.py:20-38  one pass of the loop body
SearchAttempt(t, resp) ==
    LET f0 == sr[t]
        f == [f0 EXCEPT !.hist = Append(@, resp.status), !.lastOp = "request"]
        s == resp.status
    IN  /\ f0.pc = "loop"
        /\ f0.attempt <= f0.retries
        /\ reqs < MaxRequests
        /\ reqs' = reqs + 1
        /\ IF s # 0 /\ RetryStatus(s, f0.attempt, f0.retries)
           THEN /\ sr' = [sr EXCEPT ![t] = SearchSleep(f)]
                /\ now' = now + Wait(f0.attempt, f0.backoff)
           ELSE IF s = 0 \/ RaisesForStatus(s)
           THEN IF ExceptRetries(f0.attempt, f0.retries)
                THEN /\ sr' = [sr EXCEPT ![t] = SearchSleep(f)]
                     /\ now' = now + Wait(f0.attempt, f0.backoff)
                ELSE /\ sr' = [sr EXCEPT ![t] = SearchFailed(f, s)]
                     /\ UNCHANGED now
           ELSE /\ sr' = [sr EXCEPT ![t] =
                            [f EXCEPT !.pc = "done", !.out = "returned", !.doc = resp.doc]]
                /\ UNCHANGED now
        /\ UNCHANGED <<token, exp, expGrant, grants, tk, calls, landVars, valVars>>

\* client.py:20, 39  the loop ran out and the function ends: it returns None
SearchLoopEnd(t) ==
    LET f == sr[t]
    IN  /\ f.pc = "loop"
        /\ f.attempt > f.retries
        /\ sr' = [sr EXCEPT ![t] = [f EXCEPT !.pc = "done", !.out = "returned", !.doc = 0]]
        /\ UNCHANGED <<now, token, exp, expGrant, grants, tk, calls, reqs, landVars, valVars>>

\* time passes between the statements of the program
Tick ==
    /\ \A t \in Threads : tk[t].pc \in {"idle", "done"} /\ sr[t].pc \in {"idle", "done"}
    /\ \E d \in TickSteps : now + d <= MaxNow /\ now' = now + d
    /\ UNCHANGED <<token, exp, expGrant, grants, tk, sr, calls, reqs, landVars, valVars>>


(***************************************************************************)
(* write_raw_jsonl: texts.  A text is a sequence of lexemes; " " and "\n"  *)
(* are the whitespace characters, every other lexeme holds none.           *)
(***************************************************************************)
SP == " "
NL == "\n"
KArtists == "\"artists\""
KItems == "\"items\""
KName == "\"name\""

IsWs(c) == c \in {SP, NL}
IsStr(c) == c \in {KArtists, KItems, KName}
\* the number of characters of a decoded string
StrLen(c) == IF c = KArtists THEN 7 ELSE IF c = KItems THEN 5 ELSE 4

RECURSIVE LStrip(_)
LStrip(s) == IF s # <<>> /\ IsWs(Head(s)) THEN LStrip(Tail(s)) ELSE s

RECURSIVE RStrip(_)
RStrip(s) ==
    IF s # <<>> /\ IsWs(s[Len(s)]) THEN RStrip(SubSeq(s, 1, Len(s) - 1)) ELSE s

\* str.strip()
Strip(s) == RStrip(LStrip(s))

\* str.replace(a, b), on single characters
Replace(s, a, b) == [i \in 1..Len(s) |-> IF s[i] = a THEN b ELSE s[i]]

\* decoded JSON values
JNull == [t |-> "null", elems |-> <<>>]
JNum == [t |-> "num", elems |-> <<>>]
JStr(c) == [t |-> "str", elems |-> <<c>>]
JList(es) == [t |-> "list", elems |-> es]
\* elems of a dict: <<key, value>> pairs in document order
JDict(kvs) == [t |-> "dict", elems |-> kvs]

ParseFail == [ok |-> FALSE, val |-> JNull, rest |-> <<>>]
ParseOk(v, rest) == [ok |-> TRUE, val |-> v, rest |-> rest]

RECURSIVE ParseValue(_), ParseMembers(_, _), ParseElems(_, _)

\* json.loads, one value at the head of s
ParseValue(s0) ==
    LET s == LStrip(s0)
    IN  IF s = <<>> THEN ParseFail
        ELSE IF Head(s) = "1" THEN ParseOk(JNum, Tail(s))
        ELSE IF Head(s) = "null" THEN ParseOk(JNull, Tail(s))
        ELSE IF IsStr(Head(s)) THEN ParseOk(JStr(Head(s)), Tail(s))
        ELSE IF Head(s) = "{"
        THEN LET s1 == LStrip(Tail(s))
             IN  IF s1 # <<>> /\ Head(s1) = "}"
                 THEN ParseOk(JDict(<<>>), Tail(s1))
                 ELSE ParseMembers(s1, <<>>)
        ELSE IF Head(s) = "["
        THEN LET s1 == LStrip(Tail(s))
             IN  IF s1 # <<>> /\ Head(s1) = "]"
                 THEN ParseOk(JList(<<>>), Tail(s1))
                 ELSE ParseElems(s1, <<>>)
        ELSE ParseFail

\* the members of an object after "{" (or after ","), up to its "}"
ParseMembers(s0, acc) ==
    LET s == LStrip(s0)
    IN  IF s = <<>> \/ ~IsStr(Head(s)) THEN ParseFail
        ELSE LET s1 == LStrip(Tail(s))
             IN  IF s1 = <<>> \/ Head(s1) # ":" THEN ParseFail
                 ELSE LET r == ParseValue(Tail(s1))
                          s2 == LStrip(r.rest)
                          acc2 == Append(acc, <<Head(s), r.val>>)
                      IN  IF ~r.ok \/ s2 = <<>> THEN ParseFail
                          ELSE IF Head(s2) = "}" THEN ParseOk(JDict(acc2), Tail(s2))
                          ELSE IF Head(s2) = "," THEN ParseMembers(Tail(s2), acc2)
                          ELSE ParseFail

\* the elements of an array after "[" (or after ","), up to its "]"
ParseElems(s0, acc) ==
    LET r == ParseValue(s0)
        s2 == LStrip(r.rest)
        acc2 == Append(acc, r.val)
    IN  IF ~r.ok \/ s2 = <<>> THEN ParseFail
        ELSE IF Head(s2) = "]" THEN ParseOk(JList(acc2), Tail(s2))
        ELSE IF Head(s2) = "," THEN ParseElems(Tail(s2), acc2)
        ELSE ParseFail

\* json.loads(text): the whole text is one value between optional whitespace
JsonLoads(text) ==
    LET r == ParseValue(text)
    IN  IF r.ok /\ LStrip(r.rest) = <<>> THEN r ELSE ParseFail

\* a check that only refuses the empty text
ParsesNonEmpty(text) == text # <<>>

\* raw_writer.py:95-98  raw_text is accepted when json.loads does not raise
Parses(text) == JsonLoads(text).ok

\* dict.get(key, default): the value of the last member with that key
DictGet(d, key, default) ==
    LET hits == {i \in 1..Len(d.elems) : d.elems[i][1] = key}
    IN  IF hits = {} THEN default
        ELSE d.elems[CHOOSE i \in hits : \A j \in hits : j <= i][2]

\* raw_writer.py:148-152  len(obj.get("artists", {}).get("items", [])), or 1
\* when any step of it raises
RecordCount(text) ==
    LET r == JsonLoads(text)
        artists == DictGet(r.val, KArtists, JDict(<<>>))
        items == DictGet(artists, KItems, JList(<<>>))
    IN  IF ~r.ok \/ r.val.t # "dict" \/ artists.t # "dict" THEN 1
        ELSE IF items.t = "list" THEN Len(items.elems)
        ELSE IF items.t = "dict"
        THEN Cardinality({items.elems[i][1] : i \in 1..Len(items.elems)})
        ELSE IF items.t = "str" THEN StrLen(items.elems[1])
        ELSE 1

\* the digest of the line as stored, not of the text as given
ChecksumOfStoredLine(text) == [md5 |-> Append(Replace(Strip(text), NL, SP), NL)]

\* raw_writer.py:61-62  hashlib.md5 of the text, taken as collision free
ChecksumMd5(text) == [md5 |-> text]

\* raw_writer.py:131, 140  the one line written to the data file
DataLine(text) == Append(Replace(Strip(text), NL, SP), NL)

(***************************************************************************)
(* write_raw_jsonl: paths.  A path is a sequence of segments, a segment a  *)
(* sequence of characters or lexemes.                                      *)
(***************************************************************************)
Digits == <<"0", "1", "2", "3", "4", "5", "6", "7", "8", "9">>

RECURSIVE ToDec(_)
ToDec(n) == IF n < 10 THEN <<Digits[n + 1]>> ELSE ToDec(n \div 10) \o <<Digits[(n % 10) + 1]>>

\* raw_writer.py:32-36  "dbfs:/x" becomes "/dbfs/x"
ToLocalPath(p) == IF p # <<>> /\ Head(p) = <<"dbfs:">> THEN <<<<"/dbfs">>>> \o Tail(p) ELSE p

\* raw_writer.py:43-44  str(p).startswith("/dbfs/")
IsDbfsPath(p) == Len(p) > 1 /\ Head(p) = <<"/dbfs">>

\* raw_writer.py:38-41
FromLocalToUri(p, baseDir) ==
    IF baseDir # <<>> /\ Head(baseDir) = <<"dbfs:">> /\ IsDbfsPath(p)
    THEN <<<<"dbfs:">>>> \o Tail(p)
    ELSE p

\* raw_writer.py:110  str(v).strip().replace("/", "_")
Sanitize(v) == Replace(Strip(v), "/", "_")

\* raw_writer.py:108-111  the string f"{k}={safe}" of every partition pair,
\* in the order of the mapping
PartitionSegments(partitions) ==
    [i \in 1..Len(partitions) |-> partitions[i][1] \o <<"=">> \o Sanitize(partitions[i][2])]

\* str.split(sep): the pieces of s between the separators
RECURSIVE SplitOn(_, _, _)
SplitOn(s, sep, cur) ==
    IF s = <<>> THEN <<cur>>
    ELSE IF Head(s) = sep THEN <<cur>> \o SplitOn(Tail(s), sep, <<>>)
    ELSE SplitOn(Tail(s), sep, Append(cur, Head(s)))

\* Path(s).parts of a relative s: "/" separates the names, empty names and
\* "." are dropped
PathParts(s) ==
    SelectSeq(SplitOn(s, "/", <<>>), LAMBDA name : name # <<>> /\ name # <<".">>)

\* Path(path, s): an s that starts with "/" is absolute and replaces path
JoinPath(path, s) ==
    IF s # <<>> /\ Head(s) = "/" THEN << <<"/">> >> \o PathParts(s)
    ELSE path \o PathParts(s)

\* raw_writer.py:113  Path(*parts), over the partition strings
RECURSIVE JoinAll(_, _)
JoinAll(path, strings) ==
    IF strings = <<>> THEN path
    ELSE JoinAll(JoinPath(path, Head(strings)), Tail(strings))

\* raw_writer.py:101  ts.strftime("%Y-%m-%d")
DateOf(ts) == ToDec(ts \div TicksPerDay)

\* raw_writer.py:102  run_id or ts.strftime("%Y%m%dT%H%M%S%fZ")
RunIdOf(runId, ts) == IF runId # <<>> THEN runId ELSE <<"T">> \o ToDec(ts) \o <<"Z">>

\* raw_writer.py:104-113
DestDir(baseDir, dataset, partitions, dt, rid) ==
    JoinAll(ToLocalPath(baseDir) \o <<dataset>>, PartitionSegments(partitions))
        \o <<<<"dt", "=">> \o dt, <<"run_id", "=">> \o rid>>

\* raw_writer.py:117-120
Stem(dir, page) == dir \o <<<<"page", "=">> \o ToDec(page)>>
WithSuffix(path, suffix) ==
    SubSeq(path, 1, Len(path) - 1) \o <<path[Len(path)] \o <<suffix>>>>
DataPath(dir, page) == WithSuffix(Stem(dir, page), ".jsonl.gz")
ManifestPath(dir, page) == WithSuffix(Stem(dir, page), "._manifest.json")
ChecksumPath(dir, page) == WithSuffix(Stem(dir, page), "._checksum.txt")

Parent(path) == SubSeq(path, 1, Len(path) - 1)
\* mkdir(parents=True, exist_ok=True), dbutils.fs.mkdirs: the directory and
\* every ancestor of it
MkDirs(dirs, dir) == dirs \cup {SubSeq(dir, 1, n) : n \in 1..Len(dir)}

\* tempfile.NamedTemporaryFile(dir=...): a name no other file has
TempPath(dir, n) == dir \o <<<<"tmp">> \o ToDec(n)>>

WriteFile(files, path, content) == (path :> content) @@ files
RemoveFile(files, path) == [q \in (DOMAIN files) \ {path} |-> files[q]]

GzFile(text, closed) == [kind |-> "gz", body |-> text, closed |-> closed]
ChecksumFile(sum) == [kind |-> "checksum", body |-> sum, closed |-> TRUE]
ManifestFile(m) == [kind |-> "manifest", body |-> m, closed |-> TRUE]

(***************************************************************************)
(* write_raw_jsonl: inputs.                                                *)
(***************************************************************************)
Landers == {"l1"}
\* two landers at work at the same time
Landers2 == {"l1", "l2"}

\* "\n{"artists":{"items":[1,\n1]}} "
TextA ==
    <<NL, "{", KArtists, ":", "{", KItems, ":", "[", "1", ",", NL, "1", "]", "}", "}", SP>>
\* "{}"
TextB == <<"{", "}">>
\* "not json"
TextBad == <<"not", SP, "json">>
RawTexts == {TextA, TextB, TextBad}
\* None (or "") and a run id given by the caller
RunIds == {<<>>, <<"r1">>}
\* how many characters a write cut short by a crash may leave
MidWriteCuts == {1}

\* main.py:29-37
MainPartitions == << << <<"q">>, <<"videoclub">> >>, << <<"type">>, <<"artist">> >> >>
MainCfg ==
    [baseDir |-> << <<"dbfs:">>, <<"mnt">>, <<"bronze">> >>, dataset |-> <<"spotify_search">>,
     partitions |-> MainPartitions, page |-> 0, dbutils |-> TRUE]
LandCfgs ==
    {MainCfg,
     [MainCfg EXCEPT !.dbutils = FALSE],
     [MainCfg EXCEPT !.baseDir = << <<".">>, <<"bronze">> >>, !.dbutils = FALSE,
                     !.partitions = << << <<"q">>, <<SP, "a", "/", "b", SP>> >> >>]}

NoManifest ==
    [dataset |-> <<>>, path |-> <<>>, partitions |-> <<>>, run_id |-> <<>>, page |-> 0,
     record_count |-> 0, checksum_md5 |-> ChecksumMd5(<<>>), fetched_at |-> 0]
NoUris == [data |-> <<>>, manifest |-> <<>>, checksum |-> <<>>]
NoLandPrev ==
    [pc |-> "idle", out |-> "none", raw |-> <<>>, runId |-> <<>>, overwrite |-> FALSE,
     dt |-> <<>>, destDir |-> <<>>, dataWrites |-> 0, sidecarWrites |-> 0,
     checksum |-> ChecksumMd5(<<>>)]
NoFile == [kind |-> "absent", body |-> <<>>, closed |-> FALSE]

IdleLand ==
    [pc |-> "idle", raw |-> <<>>, runId |-> <<>>, overwrite |-> FALSE,
     dt |-> <<>>, rid |-> <<>>, destDir |-> <<>>, existed |-> FALSE,
     checksum |-> ChecksumMd5(<<>>), tmp |-> <<>>, out |-> "none", err |-> "none",
     ret |-> NoUris, dataWrites |-> 0, sidecarWrites |-> 0,
     data0 |-> NoFile, prev |-> NoLandPrev,
     \* the landers whose call had written the data file, the checksum and
     \* the manifest before this call did
     dataAfter |-> {}, ckAfter |-> {}, mfAfter |-> {}]

InProgress == {"exists", "open", "write", "ck", "ck_replace", "mf", "mf_replace"}

(***************************************************************************)
(* write_raw_jsonl                                                         *)
(***************************************************************************)
\* raw_writer.py:117-120  the three paths of a call
FDataPath(f) == DataPath(f.destDir, cfg.page)
FManifestPath(f) == ManifestPath(f.destDir, cfg.page)
FChecksumPath(f) == ChecksumPath(f.destDir, cfg.page)

\* the data write is skipped for a file that exists when the flag is set
SkipDataWriteFlagInverted(existed, overwrite) == existed /\ overwrite

\* raw_writer.py:123  `data_path.exists() and not overwrite`
SkipDataWrite(existed, overwrite) == existed /\ ~overwrite

\* raw_writer.py:94-114  the call: the JSON check, the run id, the
\* destination directory and its creation
LandCall(l, raw, runId, overwrite) ==
    LET old == ld[l]
        prev == [pc |-> old.pc, out |-> old.out, raw |-> old.raw, runId |-> old.runId,
                 overwrite |-> old.overwrite, dt |-> old.dt, destDir |-> old.destDir,
                 dataWrites |-> old.dataWrites, sidecarWrites |-> old.sidecarWrites,
                 checksum |-> IF FChecksumPath(old) \in DOMAIN fsFiles
                              THEN fsFiles[FChecksumPath(old)].body
                              ELSE ChecksumMd5(<<>>)]
        dt == DateOf(clock)
        rid == RunIdOf(runId, clock)
        dir == DestDir(cfg.baseDir, cfg.dataset, cfg.partitions, dt, rid)
        base == [IdleLand EXCEPT !.raw = raw, !.runId = runId, !.overwrite = overwrite,
                                 !.prev = prev]
        f == [base EXCEPT !.dt = dt, !.rid = rid, !.destDir = dir]
    IN  /\ old.pc \in {"idle", "done", "crashed"}
        /\ landCalls < MaxLandCalls
        /\ landCalls' = landCalls + 1
        /\ IF ~Parses(raw)
           THEN \* raw_writer.py:98  raise ValueError("raw_text is not valid JSON")
                /\ ld' = [ld EXCEPT ![l] = [base EXCEPT !.pc = "done", !.out = "error",
                                                        !.err = "ValueError"]]
                /\ UNCHANGED fsDirs
           ELSE IF IsDbfsPath(dir) /\ ~cfg.dbutils
           THEN \* raw_writer.py:51  _mkdirs raises RuntimeError
                /\ ld' = [ld EXCEPT ![l] = [f EXCEPT !.pc = "done", !.out = "error",
                                                     !.err = "RuntimeError"]]
                /\ UNCHANGED fsDirs
           ELSE /\ ld' = [ld EXCEPT ![l] = [f EXCEPT !.pc = "exists"]]
                /\ fsDirs' = MkDirs(fsDirs, dir)
        /\ UNCHANGED <<cfg, clock, fsFiles, tmpSeq, crashes, authVars, valVars>>

\* raw_writer.py:123-125  the test of the data file and of the overwrite flag
LandExists(l) ==
    LET f == ld[l]
        existed == FDataPath(f) \in DOMAIN fsFiles
    IN  /\ f.pc = "exists"
        /\ ld' = [ld EXCEPT ![l] =
                    [f EXCEPT !.existed = existed,
                              !.data0 = IF existed THEN fsFiles[FDataPath(f)] ELSE NoFile,
                              !.pc = IF SkipDataWrite(existed, f.overwrite)
                                     THEN "ck" ELSE "open"]]
        /\ UNCHANGED <<cfg, clock, fsDirs, fsFiles, tmpSeq, landCalls, crashes, authVars, valVars>>

\* raw_writer.py:126-139  the data file is created, or truncated, at its own
\* path: by gzip.open locally, by the copy of dbutils.fs.cp on DBFS
LandOpen(l) ==
    LET f == ld[l]
    IN  /\ f.pc = "open"
        /\ fsDirs' = MkDirs(fsDirs, Parent(FDataPath(f)))
        /\ fsFiles' = WriteFile(fsFiles, FDataPath(f), GzFile(<<>>, FALSE))
        /\ ld' = [ld EXCEPT ![l] = [f EXCEPT !.pc = "write"]]
        /\ UNCHANGED <<cfg, clock, tmpSeq, landCalls, crashes, authVars, valVars>>

\* raw_writer.py:130-131, 136, 139-141  the line is written and the file closed
LandWrite(l) ==
    LET f == ld[l]
    IN  /\ f.pc = "write"
        /\ fsFiles' = WriteFile(fsFiles, FDataPath(f), GzFile(DataLine(f.raw), TRUE))
        /\ ld' = [ld EXCEPT ![l] =
                    [f EXCEPT !.pc = "ck", !.dataWrites = @ + 1,
                              !.dataAfter = {m \in DOMAIN ld : ld[m].dataWrites > 0}]]
        /\ UNCHANGED <<cfg, clock, fsDirs, tmpSeq, landCalls, crashes, authVars, valVars>>

\* the manifest is written first, the checksum after it
SidecarPathManifestFirst(f) ==
    IF f.pc \in {"ck", "ck_replace"} THEN FManifestPath(f) ELSE FChecksumPath(f)

\* raw_writer.py:145, 165  the sidecar at hand: the checksum, then the manifest
SidecarPath(f) == IF f.pc \in {"ck", "ck_replace"} THEN FChecksumPath(f) ELSE FManifestPath(f)

\* raw_writer.py:155-164  the manifest of a call
Manifest(f) ==
    [dataset |-> cfg.dataset,
     path |-> FromLocalToUri(FDataPath(f), cfg.baseDir),
     partitions |-> cfg.partitions,
     run_id |-> f.rid,
     page |-> cfg.page,
     record_count |-> RecordCount(f.raw),
     checksum_md5 |-> f.checksum,
     fetched_at |-> clock]

\* the checksum sidecar taken from what the data file holds
SidecarContentOfDataFile(f) ==
    IF f.pc \in {"ck", "ck_replace"}
    THEN ChecksumFile([md5 |-> fsFiles[FDataPath(f)].body])
    ELSE ManifestFile(Manifest(f))

\* raw_writer.py:144, 148-164  what the sidecar at hand holds
SidecarContent(f) ==
    IF f.pc \in {"ck", "ck_replace"}
    THEN ChecksumFile(ChecksumMd5(f.raw))
    ELSE ManifestFile(Manifest(f))

\* raw_writer.py:167-171  after the manifest the call returns the three URIs
AfterSidecar(f) ==
    IF f.pc \in {"ck", "ck_replace"}
    THEN [f EXCEPT !.pc = "mf", !.checksum = ChecksumMd5(f.raw), !.tmp = <<>>,
                   !.sidecarWrites = @ + 1,
                   !.ckAfter = {m \in DOMAIN ld : ld[m].sidecarWrites >= 1}]
    ELSE [f EXCEPT !.pc = "done", !.out = "returned", !.tmp = <<>>,
                   !.sidecarWrites = @ + 1,
                   !.mfAfter = {m \in DOMAIN ld : ld[m].sidecarWrites >= 2},
                   !.ret = [data |-> FromLocalToUri(FDataPath(f), cfg.baseDir),
                            manifest |-> FromLocalToUri(FManifestPath(f), cfg.baseDir),
                            checksum |-> FromLocalToUri(FChecksumPath(f), cfg.baseDir)]]

\* raw_writer.py:66-72  _atomic_write_text on DBFS: dbutils.fs.put(overwrite=True)
LandSidecarPut(l) ==
    LET f == ld[l]
        path == SidecarPath(f)
    IN  /\ f.pc \in {"ck", "mf"}
        /\ IsDbfsPath(path)
        /\ fsDirs' = MkDirs(fsDirs, Parent(path))
        /\ fsFiles' = WriteFile(fsFiles, path, SidecarContent(f))
        /\ ld' = [ld EXCEPT ![l] = AfterSidecar(f)]
        /\ UNCHANGED <<cfg, clock, tmpSeq, landCalls, crashes, authVars, valVars>>

\* raw_writer.py:73-78  _atomic_write_text locally: the temporary file, written
LandSidecarTemp(l) ==
    LET f == ld[l]
        path == SidecarPath(f)
        tmp == TempPath(Parent(path), tmpSeq + 1)
    IN  /\ f.pc \in {"ck", "mf"}
        /\ ~IsDbfsPath(path)
        /\ fsDirs' = MkDirs(fsDirs, Parent(path))
        /\ fsFiles' = WriteFile(fsFiles, tmp, SidecarContent(f))
        /\ tmpSeq' = tmpSeq + 1
        /\ ld' = [ld EXCEPT ![l] =
                    [f EXCEPT !.tmp = tmp,
                              !.checksum = IF f.pc = "ck" THEN ChecksumMd5(f.raw) ELSE @,
                              !.pc = IF f.pc = "ck" THEN "ck_replace" ELSE "mf_replace"]]
        /\ UNCHANGED <<cfg, clock, landCalls, crashes, authVars, valVars>>

\* raw_writer.py:79  os.replace(tmp_path, path)
LandSidecarReplace(l) ==
    LET f == ld[l]
        path == SidecarPath(f)
    IN  /\ f.pc \in {"ck_replace", "mf_replace"}
        /\ fsFiles' = WriteFile(RemoveFile(fsFiles, f.tmp), path, fsFiles[f.tmp])
        /\ ld' = [ld EXCEPT ![l] = AfterSidecar(f)]
        /\ UNCHANGED <<cfg, clock, fsDirs, tmpSeq, landCalls, crashes, authVars, valVars>>

\* what is left of a call whose process died: its arguments and its paths
Crashed(f) ==
    [IdleLand EXCEPT !.pc = "crashed", !.raw = f.raw, !.runId = f.runId,
                     !.overwrite = f.overwrite, !.dt = f.dt, !.rid = f.rid,
                     !.destDir = f.destDir]

\* the process dies between two steps of a call: the files stay as they are
LandCrash(l) ==
    LET f == ld[l]
    IN  /\ f.pc \in InProgress
        /\ crashes < MaxCrashes
        /\ crashes' = crashes + 1
        /\ ld' = [ld EXCEPT ![l] = Crashed(f)]
        /\ UNCHANGED <<cfg, clock, fsDirs, fsFiles, tmpSeq, landCalls, authVars, valVars>>

\* the process dies part-way through writing the data file: the first n
\* characters of the line are in it
LandCrashMidWrite(l, n) ==
    LET f == ld[l]
    IN  /\ f.pc = "write"
        /\ n < Len(DataLine(f.raw))
        /\ crashes < MaxCrashes
        /\ crashes' = crashes + 1
        /\ fsFiles' = WriteFile(fsFiles, FDataPath(f),
                                GzFile(SubSeq(DataLine(f.raw), 1, n), FALSE))
        /\ ld' = [ld EXCEPT ![l] = Crashed(f)]
        /\ UNCHANGED <<cfg, clock, fsDirs, tmpSeq, landCalls, authVars, valVars>>

\* the UTC clock moves on between two calls
LandTick ==
    /\ \A l \in Landers : ld[l].pc \notin InProgress
    /\ clock < MaxClock
    /\ clock' = clock + 1
    /\ UNCHANGED <<cfg, fsDirs, fsFiles, tmpSeq, ld, landCalls, crashes, authVars, valVars>>

(***************************************************************************)
(* validate_json.  A document is a decoded JSON value; None, which         *)
(* get_spotify returns when its loop runs out, is JNull.                   *)
(***************************************************************************)
KFollowers == "\"followers\""
KGenres == "\"genres\""
KPopularity == "\"popularity\""
KType == "\"type\""

\* schema.py:17  the keys every artist must hold
ArtistKeys == <<KFollowers, KGenres, KName, KPopularity, KType>>

\* `key in d`
HasKey(d, key) == \E i \in 1..Len(d.elems) : d.elems[i][1] = key

\* util.py:7-13  _ensure_dict: "type" when d is no dict, "missing" when a key
\* is not in it, "ok" when it returns
EnsureDict(d, keys) ==
    IF d.t # "dict" THEN "type"
    ELSE IF \E i \in 1..Len(keys) : ~HasKey(d, keys[i]) THEN "missing"
    ELSE "ok"

\* a list check that lets the empty list through
EnsureListAllowsEmpty(x) == x.t = "list"

\* util.py:16-18  _ensure_list returns unless `not isinstance(x, list) or not x`
EnsureList(x) == x.t = "list" /\ x.elems # <<>>

\* the context strings of schema.py:6, 10, 14
CtxPayload == [at |-> "payload", index |-> -1]
CtxArtists == [at |-> "payload['artists']", index |-> -1]
CtxItems == [at |-> "payload['artists']['items']", index |-> -1]
\* an index counted from one
ItemCtxFromOne(i) == [at |-> "payload['artists']['items'][i]", index |-> i + 1]
\* schema.py:16-17  f"payload['artists']['items'][{i}]", i from enumerate
ItemCtx(i) == [at |-> "payload['artists']['items'][i]", index |-> i]

NoValErr == [kind |-> "none", why |-> "none", ctx |-> CtxPayload]
\* util.py:10, 13, 18  raise ValueError(...)
ValError(why, ctx) == [kind |-> "ValueError", why |-> why, ctx |-> ctx]

IdleValidate == [pc |-> "idle", doc |-> JNull, i |-> 0, out |-> "none", err |-> NoValErr]

SeqsUpTo(S, n) == UNION {[1..k -> S] : k \in 0..n}

FullArtist == JDict([i \in 1..Len(ArtistKeys) |-> <<ArtistKeys[i], JNum>>])
ArtistWithout(key) ==
    JDict(SelectSeq(FullArtist.elems, LAMBDA kv : kv[1] # key))

\* what an element of items may be
ElementSamples ==
    {FullArtist, ArtistWithout(KType), ArtistWithout(KFollowers), JDict(<<>>), JNum,
     JList(<<>>)}
ItemsSamples ==
    {JList(es) : es \in SeqsUpTo(ElementSamples, MaxItems)}
        \cup {JNull, JNum, JDict(<<>>), JStr(KName)}
ArtistsSamples ==
    {JDict(<< <<KItems, it>> >>) : it \in ItemsSamples}
        \cup {JDict(<<>>), JDict(<< <<KName, JNum>> >>), JNull, JList(<<>>)}
Docs ==
    {JDict(<< <<KArtists, a>> >>) : a \in ArtistsSamples}
        \cup {JDict(<<>>), JDict(<< <<KItems, JList(<<FullArtist>>)>> >>), JNull,
              JList(<<FullArtist>>), JNum}

\* payload["artists"] and payload["artists"]["items"], read after their checks
ArtistsOf(doc) == DictGet(doc, KArtists, JNull)
ItemsOf(doc) == DictGet(ArtistsOf(doc), KItems, JNull)

ValidateFail(f, why, ctx) ==
    [f EXCEPT !.pc = "done", !.out = "error", !.err = ValError(why, ctx)]

\* schema.py:4  the call
ValidateCall(doc) ==
    /\ vd.pc \in {"idle", "done"}
    /\ vd' = [IdleValidate EXCEPT !.pc = "payload", !.doc = doc]
    /\ UNCHANGED <<authVars, landVars>>

\* schema.py:6  _ensure_dict(payload, ["artists"], "payload")
ValidatePayload ==
    LET r == EnsureDict(vd.doc, <<KArtists>>)
    IN  /\ vd.pc = "payload"
        /\ vd' = IF r = "ok" THEN [vd EXCEPT !.pc = "artists"]
                 ELSE ValidateFail(vd, r, CtxPayload)
        /\ UNCHANGED <<authVars, landVars>>

\* schema.py:8-10  _ensure_dict(artists, ["items"], "payload['artists']")
ValidateArtists ==
    LET r == EnsureDict(ArtistsOf(vd.doc), <<KItems>>)
    IN  /\ vd.pc = "artists"
        /\ vd' = IF r = "ok" THEN [vd EXCEPT !.pc = "items"]
                 ELSE ValidateFail(vd, r, CtxArtists)
        /\ UNCHANGED <<authVars, landVars>>

\* schema.py:12-14  _ensure_list(items, "payload['artists']['items']")
ValidateItems ==
    /\ vd.pc = "items"
    /\ vd' = IF EnsureList(ItemsOf(vd.doc)) THEN [vd EXCEPT !.pc = "loop", !.i = 0]
             ELSE ValidateFail(vd, "list", CtxItems)
    /\ UNCHANGED <<authVars, landVars>>

\* schema.py:16-17  one pass of the loop over enumerate(items)
ValidateItem ==
    LET items == ItemsOf(vd.doc).elems
        r == EnsureDict(items[vd.i + 1], ArtistKeys)
    IN  /\ vd.pc = "loop"
        /\ vd.i < Len(items)
        /\ vd' = IF r = "ok" THEN [vd EXCEPT !.i = @ + 1]
                 ELSE ValidateFail(vd, r, ItemCtx(vd.i))
        /\ UNCHANGED <<authVars, landVars>>

\* schema.py:16-17  the loop is over and the function returns None
ValidateReturn ==
    /\ vd.pc = "loop"
    /\ vd.i = Len(ItemsOf(vd.doc).elems)
    /\ vd' = [vd EXCEPT !.pc = "done", !.out = "returned"]
    /\ UNCHANGED <<authVars, landVars>>

InitValidate == vd = IdleValidate

InitLandWith(c) ==
    /\ cfg = c
    /\ clock = 0
    /\ fsDirs = {}
    /\ fsFiles = <<>>
    /\ tmpSeq = 0
    /\ ld = [l \in Landers |-> IdleLand]
    /\ landCalls = 0
    /\ crashes = 0

InitAuth ==
    /\ now = 0
    /\ token = None
    /\ exp = 0
    /\ expGrant = 0
    /\ grants = 0
    /\ tk = [t \in Threads |-> IdleToken]
    /\ sr = [t \in Threads |-> IdleSearch]
    /\ calls = 0
    /\ reqs = 0

Init == InitAuth /\ InitLandWith(MainCfg) /\ InitValidate

Next ==
    \/ \E t \in Threads, r \in 0..MaxAttempts, b \in BackoffSet : GetToken(t, r, b)
    \/ \E t \in Threads, resp \in TokenResponses : TokenAttempt(t, resp)
    \/ \E t \in Threads : TokenStoreExp(t)
    \/ \E t \in Threads : TokenLoopEnd(t)
    \/ \E t \in Threads, r \in 0..MaxAttempts, b \in BackoffSet : Search(t, r, b)
    \/ \E t \in Threads : SearchGotToken(t)
    \/ \E t \in Threads, resp \in SearchResponses : SearchAttempt(t, resp)
    \/ \E t \in Threads : SearchLoopEnd(t)
    \/ Tick

vars == <<authVars, landVars, valVars>>

Spec == Init /\ [][Next]_vars

InitLand == InitAuth /\ InitValidate /\ \E c \in LandCfgs : InitLandWith(c)

NextLand ==
    \/ \E l \in Landers, raw \in RawTexts, runId \in RunIds, ow \in BOOLEAN :
            LandCall(l, raw, runId, ow)
    \/ \E l \in Landers : LandExists(l)
    \/ \E l \in Landers : LandOpen(l)
    \/ \E l \in Landers : LandWrite(l)
    \/ \E l \in Landers : LandSidecarPut(l)
    \/ \E l \in Landers : LandSidecarTemp(l)
    \/ \E l \in Landers : LandSidecarReplace(l)
    \/ \E l \in Landers : LandCrash(l)
    \/ \E l \in Landers, n \in MidWriteCuts : LandCrashMidWrite(l, n)
    \/ LandTick

SpecLand == InitLand /\ [][NextLand]_vars

\* two threads calling get_token on one SpotifyOAuthClient; the interpreter
\* may switch threads between any two statements of the method
InitToken2 ==
    /\ now = 0
    /\ token = None
    /\ exp = 0
    /\ expGrant = 0
    /\ grants = 0
    /\ tk = [t \in Threads2 |-> IdleToken]
    /\ sr = [t \in Threads2 |-> IdleSearch]
    /\ calls = 0
    /\ reqs = 0
    /\ InitLandWith(MainCfg)
    /\ InitValidate

NextToken2 ==
    \/ \E t \in Threads2, r \in 0..MaxAttempts, b \in BackoffSet : GetToken(t, r, b)
    \/ \E t \in Threads2, resp \in TokenResponses : TokenAttempt(t, resp)
    \/ \E t \in Threads2 : TokenStoreExp(t)
    \/ \E t \in Threads2 : TokenLoopEnd(t)

SpecToken2 == InitToken2 /\ [][NextToken2]_vars

\* partition keys and values as a caller may give them
PartitionKeys == {<<"q">>, <<"a", "/", "b">>, <<"/", "x">>}
PartitionValues == {<<"x">>, <<SP, "a", "/", "b", NL>>, <<"/", "/">>, <<>>}
\* the partition maps of up to MaxPairs pairs; a mapping holds a key once
PartitionMaps ==
    {pm \in SeqsUpTo(PartitionKeys \X PartitionValues, MaxPairs) :
        \A i, j \in 1..Len(pm) : i # j => pm[i][1] # pm[j][1]}

\* one call of write_raw_jsonl for every sample partition map
InitPaths ==
    /\ InitAuth /\ InitValidate
    /\ \E pm \in PartitionMaps : InitLandWith([MainCfg EXCEPT !.partitions = pm])

NextPaths ==
    \/ \E l \in Landers, runId \in RunIds : LandCall(l, TextB, runId, FALSE)
    \/ LandTick

SpecPaths == InitPaths /\ [][NextPaths]_vars

\* two landers, each called with overwrite=False and the same run id, on a
\* DBFS or on a local destination
InitLand2 ==
    /\ InitAuth /\ InitValidate
    /\ cfg \in {c \in LandCfgs : c.dbutils \/ ~IsDbfsPath(ToLocalPath(c.baseDir))}
    /\ clock = 0
    /\ fsDirs = {}
    /\ fsFiles = <<>>
    /\ tmpSeq = 0
    /\ ld = [l \in Landers2 |-> IdleLand]
    /\ landCalls = 0
    /\ crashes = 0

NextLand2 ==
    \/ \E l \in Landers2, raw \in {TextA, TextB} : LandCall(l, raw, <<"r1">>, FALSE)
    \/ \E l \in Landers2 : LandExists(l)
    \/ \E l \in Landers2 : LandOpen(l)
    \/ \E l \in Landers2 : LandWrite(l)
    \/ \E l \in Landers2 : LandSidecarPut(l)
    \/ \E l \in Landers2 : LandSidecarTemp(l)
    \/ \E l \in Landers2 : LandSidecarReplace(l)

SpecLand2 == InitLand2 /\ [][NextLand2]_vars

NextValidate ==
    \/ \E doc \in Docs : ValidateCall(doc)
    \/ ValidatePayload
    \/ ValidateArtists
    \/ ValidateItems
    \/ ValidateItem
    \/ ValidateReturn

SpecValidate == Init /\ [][NextValidate]_vars

(***************************************************************************)
(* Claims about get_token and get_spotify, checked under Spec.             *)
(***************************************************************************)
Last(h) == h[Len(h)]
AllButLastRetryable(h) == \A i \in 1..(Len(h) - 1) : Retryable(h[i])
AllRetryable(h) == \A i \in 1..Len(h) : Retryable(h[i])
NonRetryable4xx(s) == 400 <= s /\ s < 500 /\ s # 429
Triangle(k) == (k * (k + 1)) \div 2
\* a grant response get_token can store: access_token present, expires_in usable
WellFormed(resp) == resp.status = 200 /\ resp.at # "missing" /\ resp.ei.kind # "bad"

\* C1: a get_token call that finds the token of a successful refresh cached
\* while now >= expiry - 30 does not answer from the cache: if it returns, it
\* has made a request and returns the token that request was granted.
C1_StaleTokenRefreshed ==
    \A t \in Threads :
        LET f == tk[t]
        IN  (f.pc = "done" /\ f.prev.ok /\ f.cached /\ ~f.window /\ f.out = "returned")
                => (Len(f.hist) >= 1 /\ f.result.grant = f.granted)

\* C2: a get_token call made after a successful one, while now < expiry - 30,
\* returns the same token without any request; when the first call was granted
\* on its first request the two calls together made exactly one request.
C2_SecondCallFromCache ==
    \A t \in Threads :
        LET f == tk[t]
        IN  (f.pc # "idle" /\ f.prev.ok /\ f.window)
                => /\ f.pc = "done"
                   /\ f.out = "returned"
                   /\ f.hist = <<>>
                   /\ f.result = f.prev.value
                   /\ (f.prev.requests = 1 => f.prev.requests + Len(f.hist) = 1)

C2_Witness ==
    \E t \in Threads :
        LET f == tk[t]
        IN  /\ f.pc = "done" /\ f.prev.ok /\ f.window
            /\ f.prev.requests = 1 /\ f.hist = <<>>
            /\ f.result = token /\ Truthy(token)

\* C3: a get_spotify call whose maxAttempts attempts all failed with 429, a
\* 5xx status or a transport failure ends in an error; and a call that made
\* requests and returned normally returned a decoded document.
C3_ExhaustedSearchFails ==
    \A t \in Threads :
        LET f == sr[t]
        IN  /\ (f.pc = "done" /\ f.retries >= 1 /\ Len(f.hist) = f.retries
                    /\ AllRetryable(f.hist))
                => (f.out = "error" /\ f.err.kind = "ApiCallFailed")
            /\ (f.pc = "done" /\ f.out = "returned" /\ f.hist # <<>>) => f.doc # 0

\* C4: once an attempt of get_spotify was answered by a 4xx other than 429,
\* that attempt is the last one: the call has failed, with no sleep after it.
C4_NonRetryable4xxFailsAtOnce ==
    \A t \in Threads :
        LET f == sr[t]
        IN  \A i \in 1..Len(f.hist) :
                NonRetryable4xx(f.hist[i])
                    => /\ i = Len(f.hist)
                       /\ f.pc = "done"
                       /\ f.out = "error"
                       /\ f.lastOp = "request"

\* C5: in get_token and in get_spotify, k retryable failures followed by a
\* success make the call return that success after k + 1 requests, having
\* slept backoff * (1 + ... + k).
C5_RetryThenSuccess ==
    \A t \in Threads :
        LET f == tk[t]
            g == sr[t]
        IN  /\ (f.hist # <<>> /\ AllButLastRetryable(f.hist) /\ WellFormed(f.resp))
                => /\ f.pc \in {"store_exp", "done"}
                   /\ Len(f.hist) <= f.retries
                   /\ f.slept = f.backoff * Triangle(Len(f.hist) - 1)
                   /\ f.lastOp = "request"
                   /\ f.pc = "done" =>
                        (f.out = "returned" /\ f.result = [grant |-> f.granted, text |-> f.resp.at])
            /\ (g.hist # <<>> /\ AllButLastRetryable(g.hist) /\ Last(g.hist) = 200)
                => /\ g.pc = "done"
                   /\ g.out = "returned"
                   /\ g.doc # 0
                   /\ Len(g.hist) <= g.retries
                   /\ g.slept = g.backoff * Triangle(Len(g.hist) - 1)
                   /\ g.lastOp = "request"

C5_Witness ==
    \E t \in Threads :
        /\ tk[t].pc = "done" /\ tk[t].hist = <<200>> /\ tk[t].out = "returned"
        /\ sr[t].pc = "done" /\ sr[t].hist = <<500, 429, 200>> /\ sr[t].out = "returned"
        /\ sr[t].slept = 3 * sr[t].backoff /\ sr[t].backoff > 0

\* C6: when the attempt numbered maxAttempts of get_token fails with 429, a
\* 5xx status or a transport failure, the call fails with an error that
\* carries the number of attempts and the cause.
C6_LastAttemptFailure ==
    \A t \in Threads :
        LET f == tk[t]
        IN  (f.pc = "done" /\ f.retries >= 1 /\ Len(f.hist) = f.retries
                /\ Retryable(Last(f.hist)))
                => /\ f.out = "error"
                   /\ f.err.kind = "RequestFailed"
                   /\ f.err.attempts = f.retries
                   /\ f.err.cause = Last(f.hist)

\* C16: in get_token and in get_spotify a call makes at most maxAttempts
\* requests, every sleep is followed by another request, and no sleep
\* follows the attempt numbered maxAttempts.
C16_SleepsOnlyBetweenAttempts ==
    \A t \in Threads :
        \A f \in {[pc |-> tk[t].pc, retries |-> tk[t].retries, hist |-> tk[t].hist,
                   lastOp |-> tk[t].lastOp],
                  [pc |-> sr[t].pc, retries |-> sr[t].retries, hist |-> sr[t].hist,
                   lastOp |-> sr[t].lastOp]} :
            /\ Len(f.hist) <= f.retries
            /\ f.lastOp = "sleep" => Len(f.hist) < f.retries
            /\ f.pc = "done" => f.lastOp # "sleep"

\* C17: a get_token call that ended in an error has left the cached token
\* and the recorded expiry as it found them.
C17_ErrorLeavesCacheAlone ==
    \A t \in Threads :
        LET f == tk[t]
        IN  (f.pc = "done" /\ f.out = "error")
                => (token = f.token0 /\ exp = f.exp0)

(***************************************************************************)
(* Claims about write_raw_jsonl, checked under SpecLand.                   *)
(***************************************************************************)
\* the MD5 digest of a text, as the claims speak of it
Md5Of(text) == [md5 |-> text]
\* the sample texts that are not JSON
NonJsonTexts == {TextBad}
\* a completed call that re-ran the arguments of the call before it
SameArgsAsPrev(f) == f.prev.raw = f.raw /\ f.prev.runId = f.runId
Completed(f) == f.pc = "done" /\ f.out = "returned"

\* C7: when a land call on the local filesystem crashed and land is re-run
\* with the same arguments (a run id among them) and overwrite=false, the
\* completed re-run leaves the complete single-line payload in the data file.
C7_RerunAfterCrashIsComplete ==
    \A l \in Landers :
        LET f == ld[l]
        IN  (Completed(f) /\ ~f.overwrite /\ f.prev.pc = "crashed" /\ SameArgsAsPrev(f)
                /\ f.runId # <<>> /\ f.prev.destDir = f.destDir /\ ~IsDbfsPath(f.destDir))
                => /\ FDataPath(f) \in DOMAIN fsFiles
                   /\ fsFiles[FDataPath(f)] = GzFile(DataLine(f.raw), TRUE)

\* C8: when the data file exists and overwrite is false, land leaves its
\* content as it was and rewrites the checksum and the manifest sidecar from
\* the rawText of this call.
C8_ExistingDataUntouched ==
    \A l \in Landers :
        LET f == ld[l]
        IN  (f.pc \in {"ck", "ck_replace", "mf", "mf_replace", "done"}
                /\ f.existed /\ ~f.overwrite)
                => /\ fsFiles[FDataPath(f)] = f.data0
                   /\ f.dataWrites = 0
                   /\ f.pc = "done" =>
                        /\ f.out = "returned"
                        /\ f.sidecarWrites = 2
                        /\ fsFiles[FChecksumPath(f)] = ChecksumFile(Md5Of(f.raw))
                        /\ fsFiles[FManifestPath(f)].kind = "manifest"
                        /\ fsFiles[FManifestPath(f)].body.checksum_md5 = Md5Of(f.raw)
                        /\ fsFiles[FManifestPath(f)].body.record_count = RecordCount(f.raw)

C8_Witness ==
    \E l \in Landers :
        LET f == ld[l]
        IN  /\ Completed(f) /\ f.existed /\ ~f.overwrite
            /\ f.prev.raw # f.raw
            /\ fsFiles[FDataPath(f)] = GzFile(DataLine(f.prev.raw), TRUE)
            /\ fsFiles[FChecksumPath(f)].body = Md5Of(f.raw)

\* two completed calls, one after the other, with identical arguments and
\* overwrite=false
TwiceIdentical(f) ==
    /\ Completed(f) /\ ~f.overwrite
    /\ f.prev.pc = "done" /\ f.prev.out = "returned" /\ ~f.prev.overwrite
    /\ SameArgsAsPrev(f)

\* one data file, two sidecar rewrites, the checksum that of the text both times
OneFileTwoRewrites(f) ==
    /\ f.prev.destDir = f.destDir
    /\ FDataPath(f) \in DOMAIN fsFiles
    /\ f.dataWrites = 0
    /\ f.dataWrites + f.prev.dataWrites <= 1
    /\ f.sidecarWrites = 2 /\ f.prev.sidecarWrites = 2
    /\ fsFiles[FChecksumPath(f)] = ChecksumFile(Md5Of(f.raw))
    /\ f.prev.checksum = Md5Of(f.raw)

\* C9 as stated: for all arguments land accepts, landing twice with identical
\* arguments and overwrite=false produces one data file and two sidecar
\* rewrites, the checksum being the MD5 of the text both times.
C9_TwiceIdenticalAnyArgs ==
    \A l \in Landers : TwiceIdentical(ld[l]) => OneFileTwoRewrites(ld[l])

\* C9 as amended: the same, for calls that supply a run id and fall on the
\* same UTC date.
C9_TwiceIdenticalSameRun ==
    \A l \in Landers :
        LET f == ld[l]
        IN  (TwiceIdentical(f) /\ f.runId # <<>> /\ f.prev.dt = f.dt)
                => OneFileTwoRewrites(f)

C9_Witness ==
    \E l \in Landers :
        LET f == ld[l]
        IN  /\ TwiceIdentical(f) /\ f.runId # <<>> /\ f.prev.dt = f.dt
            /\ f.raw = TextA
            /\ f.prev.dataWrites = 1 /\ f.dataWrites = 0
            /\ fsFiles[FDataPath(f)] = GzFile(DataLine(TextA), TRUE)

\* C10: a land call whose rawText is not JSON ends at once with ValueError
\* and changes no directory and no file.
C10_InvalidJsonTouchesNothing ==
    [][\A l \in Landers :
        (ld'[l] # ld[l] /\ ld'[l].raw \in NonJsonTexts)
            => /\ ld'[l].pc = "done"
               /\ ld'[l].out = "error"
               /\ ld'[l].err = "ValueError"
               /\ fsDirs' = fsDirs
               /\ fsFiles' = fsFiles]_vars

C10_Witness ==
    \E l \in Landers :
        /\ ld[l].pc = "done" /\ ld[l].raw \in NonJsonTexts
        /\ ld[l].out = "error" /\ ld[l].err = "ValueError"
        /\ fsDirs = {} /\ fsFiles = <<>>

(***************************************************************************)
(* Claims about validate_json, checked under SpecValidate.                 *)
(***************************************************************************)
\* an element of items that is a keyed mapping with the five artist keys
IsArtist(e) ==
    /\ e.t = "dict"
    /\ \A key \in {KFollowers, KGenres, KName, KPopularity, KType} : HasKey(e, key)
HasArtists(doc) == doc.t = "dict" /\ HasKey(doc, KArtists)
HasItems(doc) ==
    HasArtists(doc) /\ ArtistsOf(doc).t = "dict" /\ HasKey(ArtistsOf(doc), KItems)
HasItemList(doc) ==
    HasItems(doc) /\ ItemsOf(doc).t = "list" /\ Len(ItemsOf(doc).elems) >= 1
WellShaped(doc) ==
    /\ HasItemList(doc)
    /\ \A n \in 1..Len(ItemsOf(doc).elems) : IsArtist(ItemsOf(doc).elems[n])
\* the positions, counted from zero, of the elements that are no artists
Offending(doc) ==
    {n \in 0..(Len(ItemsOf(doc).elems) - 1) : ~IsArtist(ItemsOf(doc).elems[n + 1])}

\* C11: a finished validate_json call has returned exactly when the document
\* is a mapping with key artists, artists a mapping with key items, items a
\* non-empty list and every element a mapping with followers, genres, name,
\* popularity and type; in every other case it has raised its schema error.
C11_ValidateIffWellShaped ==
    vd.pc = "done"
        => /\ (vd.out = "returned") <=> WellShaped(vd.doc)
           /\ (vd.out # "returned") => (vd.out = "error" /\ vd.err.kind = "ValueError")

C11_Witness ==
    /\ vd.pc = "done" /\ vd.out = "error"
    /\ HasItems(vd.doc) /\ ItemsOf(vd.doc) = JList(<<>>)

\* C14: the error of a failed validate_json call names the outermost context
\* that is wrong: payload, then payload['artists'], then
\* payload['artists']['items'], then the lowest index of an element of items
\* that is no artist.
C14_ErrorNamesContext ==
    (vd.pc = "done" /\ vd.out = "error")
        => IF ~HasArtists(vd.doc) THEN vd.err.ctx.at = "payload"
           ELSE IF ~HasItems(vd.doc) THEN vd.err.ctx.at = "payload['artists']"
           ELSE IF ~HasItemList(vd.doc) THEN vd.err.ctx.at = "payload['artists']['items']"
           ELSE /\ vd.err.ctx.at = "payload['artists']['items'][i]"
                /\ vd.err.ctx.index \in Offending(vd.doc)
                /\ \A n \in Offending(vd.doc) : vd.err.ctx.index <= n

C14_Witness ==
    /\ vd.pc = "done" /\ vd.out = "error"
    /\ HasItemList(vd.doc)
    /\ Offending(vd.doc) = {0, 1}
    /\ vd.err.ctx.index = 0

(***************************************************************************)
(* More claims about write_raw_jsonl, checked under SpecLand.              *)
(***************************************************************************)
\* the parsed rawText holds the path artists.items
HasItemsPath(text) == HasItems(JsonLoads(text).val)

\* C12: the manifest of a completed land call records the length of
\* artists.items when the parsed rawText holds that path, and 1 when the
\* path is absent; the count never makes the call fail.
C12_RecordCountOrOne ==
    \A l \in Landers :
        LET f == ld[l]
            doc == JsonLoads(f.raw).val
        IN  /\ Completed(f)
                => /\ FManifestPath(f) \in DOMAIN fsFiles
                   /\ fsFiles[FManifestPath(f)].body.record_count =
                        IF HasItemsPath(f.raw) /\ ItemsOf(doc).t = "list"
                        THEN Len(ItemsOf(doc).elems)
                        ELSE IF ~HasItemsPath(f.raw) THEN 1
                        ELSE fsFiles[FManifestPath(f)].body.record_count
            /\ (f.pc = "done" /\ f.out = "error") => f.err \in {"ValueError", "RuntimeError"}


\* C18: after a completed land call, whatever the calls before it were, the
\* checksum sidecar holds the MD5 of the rawText of that call as given, and
\* the checksum field of the manifest equals the checksum sidecar.
C18_ChecksumOfLatestRawText ==
    \A l \in Landers :
        LET f == ld[l]
        IN  Completed(f)
                => /\ FChecksumPath(f) \in DOMAIN fsFiles
                   /\ FManifestPath(f) \in DOMAIN fsFiles
                   /\ fsFiles[FChecksumPath(f)] = ChecksumFile(Md5Of(f.raw))
                   /\ fsFiles[FManifestPath(f)].body.checksum_md5
                        = fsFiles[FChecksumPath(f)].body

C18_Witness ==
    \E l \in Landers :
        LET f == ld[l]
        IN  /\ Completed(f) /\ ~f.overwrite /\ f.raw = TextA
            /\ f.prev.pc = "done" /\ f.prev.out = "returned" /\ f.prev.overwrite
            /\ f.prev.raw = TextB /\ f.prev.destDir = f.destDir
            /\ fsFiles[FDataPath(f)] = GzFile(DataLine(TextB), TRUE)
            /\ fsFiles[FChecksumPath(f)].body = Md5Of(TextA)
            /\ Md5Of(TextA) # Md5Of(DataLine(TextA))

\* the file names of a page
IsManifestPath(path) == path[Len(path)][Len(path[Len(path)])] = "._manifest.json"
Sibling(path, suffix) ==
    LET name == path[Len(path)]
    IN  SubSeq(path, 1, Len(path) - 1) \o <<SubSeq(name, 1, Len(name) - 1) \o <<suffix>>>>

\* C19: with a single lander that may crash at any step, in every reachable
\* state of the filesystem a page whose manifest exists has its checksum
\* sidecar and its data file too.
C19_ManifestImpliesChecksumAndData ==
    \A path \in DOMAIN fsFiles :
        IsManifestPath(path)
            => /\ Sibling(path, "._checksum.txt") \in DOMAIN fsFiles
               /\ Sibling(path, ".jsonl.gz") \in DOMAIN fsFiles

C19_Witness ==
    \E l \in Landers :
        LET f == ld[l]
        IN  /\ f.pc = "crashed" /\ crashes > 0
            /\ FManifestPath(f) \in DOMAIN fsFiles
            /\ FChecksumPath(f) \in DOMAIN fsFiles
            /\ FDataPath(f) \in DOMAIN fsFiles
            /\ ~fsFiles[FDataPath(f)].closed

(***************************************************************************)
(* Claims about concurrent landers, checked under SpecLand2.               *)
(***************************************************************************)
\* every lander has completed its first call, all on one destination with
\* overwrite=false, no two with the same rawText
AllLanded ==
    /\ \A l \in Landers2 :
            Completed(ld[l]) /\ ld[l].prev.pc = "idle" /\ ~ld[l].overwrite
    /\ \A l, m \in Landers2 :
            /\ ld[l].destDir = ld[m].destDir
            /\ l # m => ld[l].raw # ld[m].raw

\* C13: once two concurrent landers of one destination, with different
\* rawText and overwrite=false, have both completed, the data file holds in
\* full the line of the lander that wrote it first, the checksum sidecar is
\* that of the lander that wrote it last, and so is the manifest.
C13_FirstWriterKeepsData ==
    AllLanded =>
        \E first, lastCk, lastMf \in Landers2 :
            LET f == ld[first]
            IN  /\ f.dataWrites = 1 /\ f.dataAfter = {}
                /\ fsFiles[FDataPath(f)] = GzFile(DataLine(f.raw), TRUE)
                /\ ld[lastCk].ckAfter = Landers2 \ {lastCk}
                /\ fsFiles[FChecksumPath(f)] = ChecksumFile(Md5Of(ld[lastCk].raw))
                /\ ld[lastMf].mfAfter = Landers2 \ {lastMf}
                /\ fsFiles[FManifestPath(f)].body.checksum_md5 = Md5Of(ld[lastMf].raw)

(***************************************************************************)
(* Claims about the destination directory, checked under SpecPaths.       *)
(***************************************************************************)
\* a partition value as the claim has it: trimmed, every "/" made "_"
TrimmedValue(v) == Replace(Strip(v), "/", "_")

\* C15: the destination directory of a land call is baseDir, dataset, one
\* key=value segment per partition pair in the order of the map, with the
\* value trimmed and every "/" in it replaced by "_", then dt=<UTC date> and
\* run_id=<run id>; nothing else adds or removes a level.
C15_OneSegmentPerPair ==
    \A l \in Landers :
        LET f == ld[l]
            pm == cfg.partitions
        IN  f.pc = "exists"
                => f.destDir =
                        ToLocalPath(cfg.baseDir) \o <<cfg.dataset>>
                            \o [i \in 1..Len(pm) |-> pm[i][1] \o <<"=">> \o TrimmedValue(pm[i][2])]
                            \o << <<"dt", "=">> \o f.dt, <<"run_id", "=">> \o f.rid >>

(***************************************************************************)
(* Claims about concurrent get_token calls, checked under SpecToken2.      *)
(***************************************************************************)
\* C20: once the concurrent get_token calls of all threads that share the
\* cache have returned from a refresh (their grant responses carrying
\* different lifetimes), the cached token and the recorded expiry come from
\* the same grant response.
C20_TokenAndExpiryOfOneGrant ==
    (/\ \A t \in Threads2 :
            tk[t].pc = "done" /\ tk[t].out = "returned" /\ tk[t].granted # 0
     /\ \A t, u \in Threads2 : t # u => tk[t].resp.ei # tk[u].resp.ei)
        => token.grant = expGrant
====
